---- MODULE Spec2Model ----
(***************************************************************************)
(* Client-side state synchronisation of volunteer-connect-pro:             *)
(*   - the Session Store (AuthProvider: user, loading, signUp, signIn,     *)
(*     signOut, the getSession restore and the onAuthStateChange callback) *)
(*   - the OrganizationDashboard: its two queries, its two change-feed     *)
(*     channel effects and the derived stats.                              *)
(* The JavaScript event loop runs one task at a time: every action below   *)
(* is one task (a handler run to its next await), and the awaits are the   *)
(* program counters between them.                                          *)
(***************************************************************************)
EXTENDS Integers, Sequences, FiniteSets, TLC

\* ------------------------------------------------------------------ bounds
MaxVer == 2      \* backend session transitions that are explored
MaxQueue == 2    \* identity-change notifications in flight
MaxEvents == 3   \* event ids of the backend's events table
MaxRegs == 2     \* registration ids of the backend's registrations table
MaxClock == 3    \* largest clock reading and largest event date
MaxLen == 2      \* longest cached events collection the stats are drawn for
MaxVol == 2      \* largest current_volunteers value the stats are drawn for

\* ------------------------------------------------------------------ values
None == "none"
Users == {"u1", "u2"}
MaybeUser == Users \cup {None}
NoNav == "-"
NoToast == "-"
LoginRoute == "/login"
Null == "null"
Absent == "undefined"
NullCv == 0 - 1          \* a row whose current_volunteers is null

EventIds == 1..MaxEvents
RegIds == 1..MaxRegs

\* The rows the backend tables can hold.  An event belongs to one
\* organization: every third event is u2's, the others are u1's.
Org(e) == IF e % 3 = 0 THEN "u2" ELSE "u1"
EventRow(e) == [id |-> e, org |-> Org(e), date |-> e, cv |-> 0]
EventRows == {EventRow(e) : e \in EventIds}
\* Registration r is for event ((r - 1) % MaxEvents) + 1; the odd ones carry a
\* user_id, the even ones none.
RegRow(r) == [id |-> r, event_id |-> ((r - 1) % MaxEvents) + 1,
              user_id |-> IF r % 2 = 1 THEN "v1" ELSE Null]
RegRows == {RegRow(r) : r \in RegIds}
Email(v) == IF v = "v1" THEN "v1@mail" ELSE Absent

\* The contents the tables can have when a select reads them: the backend
\* changes them under the client at any time.  An events table holds one row
\* per id.
EventTables ==
    {T \in SUBSET EventRows : \A a \in T, b \in T : a.id = b.id => a = b}
RegTables == SUBSET RegRows

Tables == {"events", "registrations"}
\* A channel: its table, its filter (organization_id=eq.org for the events
\* table, event_id=in.(ids) for the registrations table) and the user its
\* callback closes over.
NoChan == [table |-> "-", org |-> None, ids |-> <<>>, uid |-> None]

VARIABLES
    \* ---- identity provider (supabase.auth), the external collaborator
    session,     \* the backend's current session identity, or None
    ver,         \* number of the backend's current session state (history)
    notifs,      \* identity-change notifications emitted and not yet delivered
    \* ---- AuthProvider
    provider,    \* the provider is mounted
    user,        \* useState user
    loading,     \* useState loading
    userVer,     \* number of the backend state that user was last set from (history)
    subscribed,  \* the onAuthStateChange subscription is open
    restore,     \* the getSession() promise: [pc, s, v, ok]
    pcIn,        \* signIn:  [pc, u, res, est]
    pcUp,        \* signUp:  [pc, u, res, est]
    pcOut,       \* signOut: [pc, u, res, est]
    out,         \* what the last task did: [act, nav, toast, route, inval]
    \* ---- OrganizationDashboard
    mounted,     \* the dashboard view is mounted
    qEvents,     \* query ['organization-events', uid]: [has, data, fetching]
    qRegs,       \* query ['organization-registrations', uid]: [has, data, pc, ids, rows]
    chans,       \* the client's open channels, in the order they were opened
    chanEv,      \* the channel held by the events effect's cleanup
    chanReg,     \* the channel held by the registrations effect's cleanup
    peak,        \* per table, the most channels ever open at once (history)
    now,         \* the clock (Date.now())
    stats        \* the stats object of the last render

authVars == <<session, ver, notifs, provider, user, loading, userVer, subscribed,
              restore, pcIn, pcUp, pcOut>>
dashVars == <<mounted, qEvents, qRegs, chans, chanEv, chanReg, peak>>
statVars == <<now, stats>>

vars == <<authVars, out, dashVars, statVars>>

\* The visible effects of one task: the navigation it requested, the toast it
\* raised and the identity id it started post-auth routing for.
Did(act, nav, toast, route) ==
    out' = [act |-> act, nav |-> nav, toast |-> toast, route |-> route,
            inval |-> {}]

\* A task whose visible effect is queryClient.invalidateQueries for keys.
Invalidated(act, keys) ==
    out' = [act |-> act, nav |-> NoNav, toast |-> NoToast, route |-> None,
            inval |-> keys]

\* A task with no visible effect (a call being issued, a step of a collaborator).
Quiet == Did("-", NoNav, NoToast, None)

\* ------------------------------------------------------------ sequences
Range(s) == {s[i] : i \in 1..Len(s)}
Ids(rows) == [i \in 1..Len(rows) |-> rows[i].id]

RECURSIVE Remove(_, _)
\* s without its first element equal to x
Remove(s, x) ==
    IF s = <<>> THEN <<>>
    ELSE IF Head(s) = x THEN Tail(s)
    ELSE <<Head(s)>> \o Remove(Tail(s), x)

RECURSIVE OrderByDate(_)
\* The rows of S in ascending date order.
OrderByDate(S) ==
    IF S = {} THEN <<>>
    ELSE LET r == CHOOSE x \in S : \A y \in S : x.date <= y.date
         IN  <<r>> \o OrderByDate(S \ {r})

RECURSIVE OrderById(_)
OrderById(S) ==
    IF S = {} THEN <<>>
    ELSE LET r == CHOOSE x \in S : \A y \in S : x.id <= y.id
         IN  <<r>> \o OrderById(S \ {r})

Count(s, t) == Cardinality({i \in 1..Len(s) : s[i].table = t})
Max(a, b) == IF a >= b THEN a ELSE b

\* ------------------------------------------------- OrganizationDashboard
\* `events` as the component sees it: the data of ['organization-events', u],
\* undefined (has = FALSE) while the query is disabled or has no data.
EventsOf(u, qe) ==
    IF u = None THEN [has |-> FALSE, data |-> <<>>]
    ELSE [has |-> qe[u].has, data |-> qe[u].data]

RegsOf(u, qr) ==
    IF u = None THEN [has |-> FALSE, data |-> <<>>]
    ELSE [has |-> qr[u].has, data |-> qr[u].data]

\* enabled: !!user
EventsEnabled(u) == u # None

\* enabled: !!events
RegsEnabledOnData(ev) == ev.has

\* enabled: !!events && events.length > 0
RegsEnabled(ev) == ev.has /\ Len(ev.data) > 0

\* An effect that returns no cleanup.
removeChannelMissing(cs, h) == cs

\* supabase.removeChannel(channel) in an effect's cleanup
removeChannel(cs, h) == IF h = NoChan THEN cs ELSE Remove(cs, h)

\* The events effect without its early return on no user.
EventsChannelUnguarded(u) ==
    [table |-> "events", org |-> u, ids |-> <<>>, uid |-> u]

\* The events effect: the channel it opens (NoChan on its early return).
EventsChannel(u) ==
    IF u = None THEN NoChan
    ELSE [table |-> "events", org |-> u, ids |-> <<>>, uid |-> u]

\* The registrations effect: the channel it opens (NoChan on its early returns).
RegsChannel(u, ev) ==
    IF u = None \/ ~ev.has \/ Len(ev.data) = 0 THEN NoChan
    ELSE LET eventIds == Ids(ev.data)
         IN  IF Len(eventIds) = 0 THEN NoChan
             ELSE [table |-> "registrations", org |-> None, ids |-> eventIds, uid |-> u]

\* .subscribe(): the channel joins the client's open channels
subscribe(cs, h) == IF h = NoChan THEN cs ELSE Append(cs, h)

\* The observer of the events query starts a fetch unless one is in flight.
FetchEvents(q) == [q EXCEPT !.fetching = TRUE]

\* The registrations queryFn is invoked: it closes over the rendered events.
FetchRegs(q, ev) == [q EXCEPT !.pc = "primary", !.ids = Ids(ev.data), !.rows = <<>>]

\* The registrations effect with events left out of its dependency array.
RegsDepsWithoutEvents(depUser, ev, prevEv) == depUser

\* The dependency array [user, events, queryClient] of the registrations
\* effect changed.
RegsDepsChanged(depUser, ev, prevEv) == depUser \/ ev # prevEv

\* One commit of the mounted dashboard after user became u and the caches
\* became qe, qr.  React runs the cleanups of the effects whose dependencies
\* changed, then their bodies; the query observers fetch when their key
\* changed or they became enabled.  depUser: the user dependency changed.
DashRender(u, qe, qr, depUser) ==
    LET prevEv == EventsOf(user, qEvents)
        ev == EventsOf(u, qe)
        depEv == RegsDepsChanged(depUser, ev, prevEv)
        keyCh == u # user
        c1 == IF depUser THEN removeChannel(chans, chanEv) ELSE chans
        c2 == IF depEv THEN removeChannel(c1, chanReg) ELSE c1
        hEv == IF depUser THEN EventsChannel(u) ELSE chanEv
        c3 == IF depUser THEN subscribe(c2, hEv) ELSE c2
        hReg == IF depEv THEN RegsChannel(u, ev) ELSE chanReg
        c4 == IF depEv THEN subscribe(c3, hReg) ELSE c3
        qe2 == IF keyCh /\ EventsEnabled(u) /\ ~qe[u].fetching
               THEN [qe EXCEPT ![u] = FetchEvents(qe[u])] ELSE qe
        qr2 == IF RegsEnabled(ev) /\ (keyCh \/ ~RegsEnabled(prevEv)) /\ qr[u].pc = "idle"
               THEN [qr EXCEPT ![u] = FetchRegs(qr[u], ev)] ELSE qr
    IN  IF mounted
        THEN /\ chans' = c4
             /\ chanEv' = hEv
             /\ chanReg' = hReg
             /\ peak' = [t \in Tables |->
                           Max(peak[t], Max(Max(Count(c1, t), Count(c2, t)),
                                            Max(Count(c3, t), Count(c4, t))))]
             /\ qEvents' = qe2
             /\ qRegs' = qr2
             /\ UNCHANGED mounted
        ELSE /\ qEvents' = qe
             /\ qRegs' = qr
             /\ UNCHANGED <<mounted, chans, chanEv, chanReg, peak>>

\* ------------------------------------------------------------ AuthProvider
\* The callbacks with setLoading(!session) in place of setLoading(false).
SetSessionLoadingOnNone(s, v) ==
    /\ user' = s
    /\ userVer' = v
    /\ loading' = (s = None)
    /\ DashRender(s, qEvents, qRegs, TRUE)

\* setUser(session?.user ?? null); setLoading(false), and the re-render of the
\* consumers of the context.  v numbers the backend state s was read from.
SetSession(s, v) ==
    /\ user' = s
    /\ userVer' = v
    /\ loading' = FALSE
    /\ DashRender(s, qEvents, qRegs, TRUE)

\* handleAuthNavigation(id, navigate) (auth-utils): post-auth routing is
\* started for id; the task's record names the id (None: no routing).
handleAuthNavigation(id) == id

\* The identity provider tells the subscriber about its state (s, v).
Emit(s, v) == notifs' = IF subscribed THEN Append(notifs, [s |-> s, v |-> v]) ELSE notifs

\* A getSession() that finds no persisted session.
GetSessionForgets(ok) ==
    /\ restore.pc = "called"
    /\ restore' = [pc |-> "resolved", s |-> None, v |-> ver, ok |-> ok]
    /\ Quiet
    /\ UNCHANGED <<session, ver, notifs, provider, user, loading, userVer, subscribed,
                   pcIn, pcUp, pcOut, dashVars, statVars>>

\* supabase.auth.getSession() resolves: with the backend's session, or with
\* none when the call fails.
GetSessionResolve(ok) ==
    /\ restore.pc = "called"
    /\ restore' = [pc |-> "resolved", s |-> IF ok THEN session ELSE None, v |-> ver,
                   ok |-> ok]
    /\ Quiet
    /\ UNCHANGED <<session, ver, notifs, provider, user, loading, userVer, subscribed,
                   pcIn, pcUp, pcOut, dashVars, statVars>>

\* The .then callback with its body under if (session).
RestoreThenIfSession ==
    /\ restore.pc = "resolved"
    /\ restore' = [restore EXCEPT !.pc = "done"]
    /\ IF restore.s # None
       THEN /\ SetSession(restore.s, restore.v)
            /\ Did("RestoreThen", NoNav, NoToast, handleAuthNavigation(restore.s))
       ELSE /\ Quiet
            /\ UNCHANGED <<user, loading, userVer, dashVars>>
    /\ UNCHANGED <<session, ver, notifs, provider, subscribed, pcIn, pcUp, pcOut,
                   statVars>>

\* The .then callback of getSession().
RestoreThen ==
    /\ restore.pc = "resolved"
    /\ restore' = [restore EXCEPT !.pc = "done"]
    /\ SetSession(restore.s, restore.v)
    /\ IF restore.s # None
       THEN Did("RestoreThen", NoNav, NoToast, handleAuthNavigation(restore.s))
       ELSE Did("RestoreThen", NoNav, NoToast, None)
    /\ UNCHANGED <<session, ver, notifs, provider, subscribed, pcIn, pcUp, pcOut,
                   statVars>>

\* The onAuthStateChange callback, run for the oldest undelivered notification.
NotifyDeliver ==
    /\ subscribed
    /\ notifs # <<>>
    /\ notifs' = Tail(notifs)
    /\ SetSession(Head(notifs).s, Head(notifs).v)
    /\ IF Head(notifs).s # None
       THEN Did("NotifyDeliver", NoNav, NoToast, handleAuthNavigation(Head(notifs).s))
       ELSE Did("NotifyDeliver", NoNav, NoToast, None)
    /\ UNCHANGED <<session, ver, provider, subscribed, restore, pcIn, pcUp, pcOut,
                   statVars>>

\* subscription.unsubscribe(): the subscription is open no more.
unsubscribe == FALSE

\* return () => subscription.unsubscribe(): the provider is torn down, and
\* with it the dashboard it wraps.
ProviderUnmount ==
    /\ provider
    /\ provider' = FALSE
    /\ subscribed' = unsubscribe
    /\ notifs' = IF subscribed' THEN notifs ELSE <<>>
    /\ mounted' = FALSE
    /\ chans' = removeChannel(removeChannel(chans, chanEv), chanReg)
    /\ chanEv' = NoChan
    /\ chanReg' = NoChan
    /\ Quiet
    /\ UNCHANGED <<session, ver, user, loading, userVer, restore, pcIn, pcUp,
                   pcOut, qEvents, qRegs, peak, statVars>>

\* ---- the identity provider acting on its own
\* A notification that carries the current state again (token refresh,
\* initial session, duplicate delivery).
EnvEmit ==
    /\ subscribed
    /\ Len(notifs) < MaxQueue
    /\ Emit(session, ver)
    /\ Quiet
    /\ UNCHANGED <<session, ver, provider, user, loading, userVer, subscribed,
                   restore, pcIn, pcUp, pcOut, dashVars, statVars>>

\* A backend-driven identity transition (login elsewhere, logout, expiry).
EnvSessionChange(s) ==
    /\ subscribed
    /\ s # session
    /\ ver < MaxVer
    /\ Len(notifs) < MaxQueue
    /\ session' = s
    /\ ver' = ver + 1
    /\ Emit(s, ver + 1)
    /\ Quiet
    /\ UNCHANGED <<provider, user, loading, userVer, subscribed, restore,
                   pcIn, pcUp, pcOut, dashVars, statVars>>

\* ---- the operations of the context
\* est: the identity provider established a session in answer to a step of
\* the call (history).
Idle == [pc |-> "idle", u |-> None, res |-> "-", est |-> FALSE]
ToastError == "error"

\* handleAuthError(error) (auth-utils): the error becomes an error toast.
handleAuthError == ToastError

\* A call of the identity provider is issued at the end of one task and
\* answered before the next task of the same operation runs.  Issuing it
\* changes nothing the other tasks read, so the call and the provider's answer
\* are one step; the continuation after the await is the next.

\* The identity provider establishes or clears its session and tells its
\* subscribers.
BackendSession(s) ==
    /\ ver < MaxVer
    /\ Len(notifs) < MaxQueue
    /\ session' = s
    /\ ver' = ver + 1
    /\ Emit(s, ver + 1)

\* signIn(email, password): signInWithPassword is called and answered; u is
\* the identity the credentials belong to; res is "ok", "error" (signInError)
\* or "nouser" (no user data returned).  The login and the registration form
\* are two pages: one of signIn and signUp runs at a time, signOut beside either.
SignInCall(u, res) ==
    /\ provider
    /\ pcIn.pc = "idle"
    /\ pcUp.pc = "idle"
    /\ pcIn' = [pc |-> "resolved", u |-> u, res |-> res, est |-> (res = "ok")]
    /\ IF res = "ok" THEN BackendSession(u) ELSE UNCHANGED <<session, ver, notifs>>
    /\ Quiet
    /\ UNCHANGED <<provider, user, loading, userVer, subscribed, restore, pcUp, pcOut, dashVars, statVars>>

\* signIn after its await: the toast and the routing it starts, or its catch.
signInEffect(res, u) ==
    IF res = "ok"
    THEN [toast |-> "Logged in successfully!", route |-> handleAuthNavigation(u)]
    ELSE [toast |-> handleAuthError, route |-> None]

SignInThen ==
    /\ pcIn.pc = "resolved"
    /\ pcIn' = Idle
    /\ LET e == signInEffect(pcIn.res, pcIn.u)
       IN  Did("SignInThen", NoNav, e.toast, e.route)
    /\ UNCHANGED <<session, ver, notifs, provider, user, loading, userVer, subscribed,
                   restore, pcUp, pcOut, dashVars, statVars>>

\* signUp(email, password, role): supabase.auth.signUp is called and answered
\* with res.  Whether the identity provider signs the new user in on sign-up
\* (est) is its configuration: with email confirmation off it does, and
\* tells its subscribers.
SignUpCall(u, res, est) ==
    /\ provider
    /\ pcUp.pc = "idle"
    /\ pcIn.pc = "idle"
    /\ est => res = "ok"
    /\ pcUp' = [pc |-> "signup_resolved", u |-> u, res |-> res, est |-> est]
    /\ IF est THEN BackendSession(u) ELSE UNCHANGED <<session, ver, notifs>>
    /\ Quiet
    /\ UNCHANGED <<provider, user, loading, userVer, subscribed,
                   restore, pcIn, pcOut, dashVars, statVars>>

\* signUp after its first await: its catch, or signInWithPassword is called
\* and answered with res.
SignUpThen(res) ==
    /\ pcUp.pc = "signup_resolved"
    /\ IF pcUp.res = "ok"
       THEN /\ pcUp' = [pcUp EXCEPT !.pc = "signin_resolved", !.res = res,
                                    !.est = @ \/ res = "ok"]
            /\ IF res = "ok" THEN BackendSession(pcUp.u)
                             ELSE UNCHANGED <<session, ver, notifs>>
            /\ Quiet
       ELSE /\ res = "error"
            /\ pcUp' = Idle
            /\ Did("SignUpThen", NoNav, handleAuthError, None)
            /\ UNCHANGED <<session, ver, notifs>>
    /\ UNCHANGED <<provider, user, loading, userVer, subscribed, restore, pcIn, pcOut, dashVars, statVars>>

\* signUp after its second await: its catch, or the start of the settle delay.
SignUpSignInThen ==
    /\ pcUp.pc = "signin_resolved"
    /\ IF pcUp.res = "ok"
       THEN /\ pcUp' = [pcUp EXCEPT !.pc = "settle", !.res = "-"]
            /\ Quiet
       ELSE /\ pcUp' = Idle
            /\ Did("SignUpSignInThen", NoNav, handleAuthError, None)
    /\ UNCHANGED <<session, ver, notifs, provider, user, loading, userVer, subscribed,
                   restore, pcIn, pcOut, dashVars, statVars>>

\* signUp after the settle delay: the routing and the success toast.
SignUpSettled ==
    /\ pcUp.pc = "settle"
    /\ pcUp' = Idle
    /\ Did("SignUpSettled", NoNav, "Account created and logged in successfully!",
           handleAuthNavigation(pcUp.u))
    /\ UNCHANGED <<session, ver, notifs, provider, user, loading, userVer, subscribed,
                   restore, pcIn, pcOut, dashVars, statVars>>

\* signOut(): supabase.auth.signOut is called and answered; on success the
\* session is gone.
SignOutCall(res) ==
    /\ provider
    /\ pcOut.pc = "idle"
    /\ pcOut' = [pc |-> "resolved", u |-> None, res |-> res, est |-> FALSE]
    /\ IF res = "ok" THEN BackendSession(None) ELSE UNCHANGED <<session, ver, notifs>>
    /\ Quiet
    /\ UNCHANGED <<provider, user, loading, userVer, subscribed, restore, pcIn, pcUp, dashVars, statVars>>

\* signOut with navigate("/login") moved out of the try block.
signOutEffectFinally(res) ==
    IF res = "ok"
    THEN [nav |-> LoginRoute, toast |-> NoToast]
    ELSE [nav |-> LoginRoute, toast |-> handleAuthError]

\* signOut after its await: navigate("/login"), or its catch.
signOutEffect(res) ==
    IF res = "ok"
    THEN [nav |-> LoginRoute, toast |-> NoToast]
    ELSE [nav |-> NoNav, toast |-> handleAuthError]

SignOutThen ==
    /\ pcOut.pc = "resolved"
    /\ pcOut' = Idle
    /\ Did("SignOutThen", signOutEffect(pcOut.res).nav, signOutEffect(pcOut.res).toast, None)
    /\ UNCHANGED <<session, ver, notifs, provider, user, loading, userVer, subscribed,
                   restore, pcIn, pcUp, dashVars, statVars>>

\* ------------------------------------------------------ the dashboard's tasks
\* The view mounts: both effects run and both observers subscribe.
DashMount ==
    /\ provider
    /\ ~mounted
    /\ mounted' = TRUE
    /\ LET ev == EventsOf(user, qEvents)
           hEv == EventsChannel(user)
           hReg == RegsChannel(user, ev)
           c1 == subscribe(chans, hEv)
           c2 == subscribe(c1, hReg)
       IN  /\ chans' = c2
           /\ chanEv' = hEv
           /\ chanReg' = hReg
           /\ peak' = [t \in Tables |-> Max(peak[t], Max(Count(c1, t), Count(c2, t)))]
           /\ qEvents' = IF EventsEnabled(user) /\ ~qEvents[user].fetching
                         THEN [qEvents EXCEPT ![user] = FetchEvents(qEvents[user])]
                         ELSE qEvents
           /\ qRegs' = IF RegsEnabled(ev) /\ qRegs[user].pc = "idle"
                       THEN [qRegs EXCEPT ![user] = FetchRegs(qRegs[user], ev)]
                       ELSE qRegs
    /\ Quiet
    /\ UNCHANGED <<authVars, statVars>>

\* The view unmounts: the cleanups of both effects run.
DashUnmount ==
    /\ mounted
    /\ mounted' = FALSE
    /\ chans' = removeChannel(removeChannel(chans, chanEv), chanReg)
    /\ chanEv' = NoChan
    /\ chanReg' = NoChan
    /\ Quiet
    /\ UNCHANGED <<authVars, qEvents, qRegs, peak, statVars>>

\* The events queryFn for key u: select * from events where
\* organization_id = u order by date, read off the table tbl.
eventsQueryFn(u, tbl) == OrderByDate({r \in tbl : r.org = u})

\* The fetch of ['organization-events', u] ends: its data is cached, or its
\* error leaves the cached data as it was.
EventsFetchDone(u, ok, tbl) ==
    /\ qEvents[u].fetching
    /\ LET q == IF ok
                THEN [has |-> TRUE, data |-> eventsQueryFn(u, tbl),
                      fetching |-> FALSE]
                ELSE [qEvents[u] EXCEPT !.fetching = FALSE]
       IN  DashRender(user, [qEvents EXCEPT ![u] = q], qRegs, FALSE)
    /\ Quiet
    /\ UNCHANGED <<authVars, statVars>>

\* A registration row as the queryFn returns it; user_email is Absent on the
\* rows returned before the email map is applied.
Reg(r, email) == [id |-> r.id, event_id |-> r.event_id, user_id |-> r.user_id,
                  user_email |-> email]

\* select ... from registrations where event_id in (ids), read off the
\* table tbl
primaryQuery(ids, tbl) ==
    LET rows == OrderById({r \in tbl : r.event_id \in Range(ids)})
    IN  [i \in 1..Len(rows) |-> Reg(rows[i], Absent)]

\* data.map(reg => reg.user_id).filter(Boolean)
userIds(data) == {data[i].user_id : i \in 1..Len(data)} \ {Null}

\* The email map applied to the rows of the primary query.
withEmails(data) ==
    [i \in 1..Len(data) |->
        [data[i] EXCEPT !.user_email =
            IF data[i].user_id # Null THEN Email(data[i].user_id) ELSE Null]]

Cached(q, data) == [q EXCEPT !.has = TRUE, !.data = data,
                             !.pc = "idle", !.ids = <<>>, !.rows = <<>>]
Failed(q) == [q EXCEPT !.pc = "idle", !.ids = <<>>, !.rows = <<>>]

\* The registrations queryFn after its first await (or its early return on
\* no events): its throw, its return of the plain rows when no row has a
\* user_id, or the email lookup.
RegsPrimaryDone(u, ok, tbl) ==
    /\ qRegs[u].pc = "primary"
    /\ LET q == qRegs[u]
           data == primaryQuery(q.ids, tbl)
       IN  qRegs' = [qRegs EXCEPT ![u] =
                IF Len(q.ids) = 0 THEN Cached(q, <<>>)
                ELSE IF ~ok THEN Failed(q)
                ELSE IF userIds(data) = {} THEN Cached(q, data)
                ELSE [q EXCEPT !.pc = "email", !.rows = data]]
    /\ Quiet
    /\ UNCHANGED <<authVars, mounted, qEvents, chans, chanEv, chanReg,
                   peak, statVars>>

\* The registrations queryFn after its second await: the rows with their
\* emails, or on emailError the console.error and the rows as they are.
RegsEmailDone(u, ok) ==
    /\ qRegs[u].pc = "email"
    /\ LET q == qRegs[u]
       IN  qRegs' = [qRegs EXCEPT ![u] =
                IF ok THEN Cached(q, withEmails(q.rows)) ELSE Cached(q, q.rows)]
    /\ IF ok THEN Quiet ELSE Did("RegsEmailError", NoNav, NoToast, None)
    /\ UNCHANGED <<authVars, mounted, qEvents, chans, chanEv, chanReg,
                   peak, statVars>>

\* The query keys of user u.
EventsKey(u) == <<"organization-events", u>>
RegsKey(u) == <<"organization-registrations", u>>

\* queryClient.invalidateQueries({ queryKey: [.., u] }): the entry is fetched
\* again when an enabled observer watches it.  (The entry's invalidated mark
\* is not kept: with the default staleTime every entry is stale and is
\* fetched again on the next mount whether marked or not.)
Active(u) == mounted /\ user = u

invalidateEvents(qe, u) ==
    [qe EXCEPT ![u] = IF Active(u) /\ EventsEnabled(u) THEN FetchEvents(@) ELSE @]

invalidateRegs(qr, u) ==
    [qr EXCEPT ![u] = IF Active(u) /\ RegsEnabled(EventsOf(u, qEvents))
                      THEN FetchRegs(@, EventsOf(u, qEvents))
                      ELSE @]

\* The events callback writing the payload's row into the cache.
eventsCallbackApplied(c, p) ==
    [qe |-> [invalidateEvents(qEvents, c.uid) EXCEPT
                ![c.uid].has = TRUE, ![c.uid].data = <<p>>],
     qr |-> qRegs,
     keys |-> {EventsKey(c.uid)}]

\* The callback of the events channel c, run for a change with payload p:
\* the caches after it, and the keys it invalidated.
eventsCallback(c, p) ==
    [qe |-> invalidateEvents(qEvents, c.uid),
     qr |-> qRegs,
     keys |-> {EventsKey(c.uid)}]

\* The registrations callback without its second invalidateQueries.
regsCallbackRegsOnly(c, p) ==
    [qe |-> qEvents,
     qr |-> invalidateRegs(qRegs, c.uid),
     keys |-> {RegsKey(c.uid)}]

\* The callback of the registrations channel c, run for a change with payload p.
regsCallback(c, p) ==
    [qe |-> invalidateEvents(qEvents, c.uid),
     qr |-> invalidateRegs(qRegs, c.uid),
     keys |-> {RegsKey(c.uid), EventsKey(c.uid)}]

\* A change of the events table (insert, update or delete of row p) reaches
\* the open events channel.
EventsChange(p) ==
    /\ \E i \in 1..Len(chans) :
         /\ chans[i].table = "events"
         /\ LET r == eventsCallback(chans[i], p)
            IN  /\ qEvents' = r.qe
                /\ qRegs' = r.qr
                /\ Invalidated("EventsChange", r.keys)
    /\ UNCHANGED <<authVars, mounted, chans, chanEv, chanReg, peak, statVars>>

\* A change of the registrations table reaches the open registrations channel.
RegsChange(p) ==
    /\ \E i \in 1..Len(chans) :
         /\ chans[i].table = "registrations"
         /\ LET r == regsCallback(chans[i], p)
            IN  /\ qEvents' = r.qe
                /\ qRegs' = r.qr
                /\ Invalidated("RegsChange", r.keys)
    /\ UNCHANGED <<authVars, mounted, chans, chanEv, chanReg, peak, statVars>>

\* A backend-driven identity transition and the delivery of its notification
\* to the onAuthStateChange callback, as the dashboard sees them: it reads
\* user alone, so the two are one step for it.  The numbering of the backend
\* states is not advanced here: the dashboard reads neither ver nor userVer,
\* and the identity may change any number of times under it.
IdentityChange(s) ==
    /\ subscribed
    /\ notifs = <<>>
    /\ s # session
    /\ session' = s
    /\ SetSession(s, ver)
    /\ IF s # None
       THEN Did("NotifyDeliver", NoNav, NoToast, handleAuthNavigation(s))
       ELSE Did("NotifyDeliver", NoNav, NoToast, None)
    /\ UNCHANGED <<ver, notifs, provider, subscribed, restore, pcIn, pcUp, pcOut,
                   statVars>>

NextDash ==
    \/ \E s \in MaybeUser : IdentityChange(s)
    \/ ProviderUnmount
    \/ DashMount
    \/ DashUnmount
    \/ \E u \in Users, ok \in BOOLEAN, tbl \in EventTables : EventsFetchDone(u, ok, tbl)
    \/ \E u \in Users, ok \in BOOLEAN : RegsPrimaryDone(u, ok, {})
    \/ \E p \in EventRows : EventsChange(p)
    \/ \E p \in RegRows : RegsChange(p)

\* The registrations of one organization's mounted dashboard while both
\* tables change under it.
NextRegs ==
    \/ DashMount
    \/ \E u \in Users, ok \in BOOLEAN, tbl \in EventTables : EventsFetchDone(u, ok, tbl)
    \/ \E u \in Users, ok \in BOOLEAN, tbl \in RegTables : RegsPrimaryDone(u, ok, tbl)
    \/ \E u \in Users, ok \in BOOLEAN : RegsEmailDone(u, ok)
    \/ \E p \in EventRows : EventsChange(p)
    \/ \E p \in RegRows : RegsChange(p)

\* ------------------------------------------------------------ the stats
\* isPast(new Date(event.date)) of date-fns, read off the clock at t
isPast(date, t) == date < t

RECURSIVE SumCvNoDefault(_)
\* The reduce without the || 0 on current_volunteers.
SumCvNoDefault(rows) ==
    IF rows = <<>> THEN 0
    ELSE Head(rows).cv + SumCvNoDefault(Tail(rows))

RECURSIVE SumCv(_)
\* events.reduce((acc, event) => acc + (event.current_volunteers || 0), 0)
SumCv(rows) ==
    IF rows = <<>> THEN 0
    ELSE (IF Head(rows).cv = NullCv THEN 0 ELSE Head(rows).cv) + SumCv(Tail(rows))

\* const stats = {...}: the two filters read the clock one after the other,
\* at t1 and at t2.
Stats(ev, t1, t2) ==
    [totalEvents |-> IF ev.has THEN Len(ev.data) ELSE 0,
     activeEvents |->
        IF ev.has
        THEN Cardinality({i \in 1..Len(ev.data) : ~isPast(ev.data[i].date, t1)})
        ELSE 0,
     totalVolunteers |-> IF ev.has THEN SumCv(ev.data) ELSE 0,
     completedEvents |->
        IF ev.has
        THEN Cardinality({i \in 1..Len(ev.data) : isPast(ev.data[i].date, t2)})
        ELSE 0]

\* One evaluation of the component body: the clock stands at now for the
\* first filter and at t2 for the second.
Render(t2) ==
    /\ mounted
    /\ t2 \in now..MaxClock
    /\ stats' = Stats(EventsOf(user, qEvents), now, t2)
    /\ now' = t2
    /\ Did("Render", NoNav, NoToast, None)
    /\ UNCHANGED <<authVars, dashVars>>

\* Time passes.
Tick ==
    /\ now < MaxClock
    /\ now' = now + 1
    /\ Quiet
    /\ UNCHANGED <<authVars, dashVars, stats>>

NextStats ==
    \/ \E t2 \in 0..MaxClock : Render(t2)
    \/ Tick

Results == {"ok", "error"}

NextAuth ==
    \/ \E ok \in BOOLEAN : GetSessionResolve(ok)
    \/ RestoreThen
    \/ NotifyDeliver
    \/ ProviderUnmount
    \/ EnvEmit
    \/ \E s \in MaybeUser : EnvSessionChange(s)
    \/ \E u \in Users, res \in Results \cup {"nouser"} : SignInCall(u, res)
    \/ SignInThen
    \/ \E u \in Users, res \in Results \cup {"nouser"}, est \in BOOLEAN :
          SignUpCall(u, res, est)
    \/ \E res \in Results : SignUpThen(res)
    \/ SignUpSignInThen
    \/ SignUpSettled
    \/ \E res \in Results : SignOutCall(res)
    \/ SignOutThen

EmptyQ == [has |-> FALSE, data |-> <<>>, fetching |-> FALSE]
EmptyR == [has |-> FALSE, data |-> <<>>, pc |-> "idle",
           ids |-> <<>>, rows |-> <<>>]
NoStats == [totalEvents |-> 0, activeEvents |-> 0, totalVolunteers |-> 0,
            completedEvents |-> 0]

\* The provider has just mounted: getSession() is called and the subscription
\* is open; the persisted session is any identity or none.
InitAuth ==
    /\ session \in MaybeUser
    /\ ver = 0
    /\ notifs = <<>>
    /\ user = None
    /\ loading = TRUE
    /\ userVer = 0
    /\ provider = TRUE
    /\ subscribed = TRUE
    /\ restore = [pc |-> "called", s |-> None, v |-> 0, ok |-> TRUE]
    /\ pcIn = Idle
    /\ pcUp = Idle
    /\ pcOut = Idle
    /\ out = [act |-> "-", nav |-> NoNav, toast |-> NoToast, route |-> None,
              inval |-> {}]

InitDash ==
    /\ mounted = FALSE
    /\ qEvents = [u \in Users |-> EmptyQ]
    /\ qRegs = [u \in Users |-> EmptyR]
    /\ chans = <<>>
    /\ chanEv = NoChan
    /\ chanReg = NoChan
    /\ peak = [t \in Tables |-> 0]
    /\ now = 0
    /\ stats = NoStats

Init ==
    /\ InitAuth
    /\ InitDash

Spec == Init /\ [][NextAuth]_vars

\* The provider's effect alone: the restore, the subscription and the
\* teardown, under an identity provider that changes its session at will
\* (what a signIn, signUp or signOut of this client does to the session is
\* among its changes).
NextRestore ==
    \/ \E ok \in BOOLEAN : GetSessionResolve(ok)
    \/ RestoreThen
    \/ NotifyDeliver
    \/ ProviderUnmount
    \/ EnvEmit
    \/ \E s \in MaybeUser : EnvSessionChange(s)

\* The getSession() promise settles, and the event loop runs its callback.
SpecLive ==
    /\ Init
    /\ [][NextRestore]_vars
    /\ WF_vars(\E ok \in BOOLEAN : GetSessionResolve(ok))
    /\ WF_vars(RestoreThen)

\* The page is loaded again: a new AuthProvider mounts with its initial
\* state, calls getSession() and subscribes; the tasks and the caches of the
\* page before are gone, the identity provider's session is kept.
Reload ==
    /\ user' = None
    /\ loading' = TRUE
    /\ userVer' = 0
    /\ provider' = TRUE
    /\ subscribed' = TRUE
    /\ notifs' = <<>>
    /\ restore' = [pc |-> "called", s |-> None, v |-> 0, ok |-> TRUE]
    /\ pcIn' = Idle
    /\ pcUp' = Idle
    /\ pcOut' = Idle
    /\ mounted' = FALSE
    /\ qEvents' = [u \in Users |-> EmptyQ]
    /\ qRegs' = [u \in Users |-> EmptyR]
    /\ chans' = <<>>
    /\ chanEv' = NoChan
    /\ chanReg' = NoChan
    /\ peak' = [t \in Tables |-> 0]
    /\ Quiet
    /\ UNCHANGED <<session, ver, statVars>>

\* signIn and the restore alone: every session of the identity provider was
\* established by a signIn of this client.
NextSignIn ==
    \/ \E u \in Users, res \in Results \cup {"nouser"} : SignInCall(u, res)
    \/ SignInThen
    \/ NotifyDeliver
    \/ \E ok \in BOOLEAN : GetSessionResolve(ok)
    \/ RestoreThen
    \/ Reload

InitSignIn ==
    /\ Init
    /\ session = None

SpecSignIn == InitSignIn /\ [][NextSignIn]_vars

\* The state when the restore has completed with identity s.
Restored(s) ==
    /\ session = s
    /\ ver = 0
    /\ notifs = <<>>
    /\ user = s
    /\ loading = FALSE
    /\ userVer = 0
    /\ provider = TRUE
    /\ subscribed = TRUE
    /\ restore = [pc |-> "done", s |-> s, v |-> 0, ok |-> TRUE]
    /\ pcIn = Idle
    /\ pcUp = Idle
    /\ pcOut = Idle
    /\ out = [act |-> "RestoreThen", nav |-> NoNav, toast |-> NoToast, route |-> s,
              inval |-> {}]

\* The channels and caches of the dashboard under identity changes, mounts
\* and changes of the events table; the selects on the registrations table
\* find it empty.
InitDashSpec ==
    /\ Restored(None)
    /\ InitDash

SpecDash == InitDashSpec /\ [][NextDash]_vars

InitRegs ==
    /\ \E u \in Users : Restored(u)
    /\ InitDash

SpecRegs == InitRegs /\ [][NextRegs]_vars

\* The events a fetch can have cached for u1: rows of its own, with distinct
\* ids, in ascending date order.
StatRows == [id : 1..MaxLen, org : {"u1"}, date : 0..MaxClock,
             cv : {NullCv} \cup 0..MaxVol]
CachedEvents ==
    {<<>>} \cup
    UNION {{s \in [1..n -> StatRows] :
              /\ \A i \in 1..n : s[i].id = i
              /\ \A i \in 1..(n - 1) : s[i].date <= s[i + 1].date} : n \in 1..MaxLen}

\* The mounted dashboard of u1 with its events fetched (or not yet), the
\* registrations fetch of the non-empty collection in flight.
InitStats ==
    /\ Restored("u1")
    /\ mounted = TRUE
    /\ now = 0
    /\ stats = NoStats
    /\ \E has \in BOOLEAN, rows \in CachedEvents :
         LET ev == [has |-> has, data |-> IF has THEN rows ELSE <<>>]
         IN  /\ qEvents = [u \in Users |->
                  IF u = "u1"
                  THEN [has |-> has, data |-> ev.data, fetching |-> ~has]
                  ELSE EmptyQ]
             /\ qRegs = [u \in Users |->
                  IF u = "u1" /\ RegsEnabled(ev) THEN FetchRegs(EmptyR, ev) ELSE EmptyR]
             /\ chanEv = EventsChannel("u1")
             /\ chanReg = RegsChannel("u1", ev)
             /\ chans = subscribe(subscribe(<<>>, chanEv), chanReg)
             /\ peak = [t \in Tables |-> Count(chans, t)]

SpecStats == InitStats /\ [][NextStats]_vars

\* ================================================================ claims
SignOutReturns == pcOut.pc = "resolved" /\ pcOut'.pc = "idle"

\* C1 (as stated): every signOut ends with a navigation request to the login
\* route, also when the remote sign-out call returned an error.
C1_AlwaysNavigates == [][SignOutReturns => out'.nav = LoginRoute]_vars

\* C1 (amended): signOut requests the navigation to the login route exactly
\* when the remote sign-out call returned no error; when it returned an error
\* the error is handed to handleAuthError and no navigation is requested.
C1_NavigatesOnSuccessOnly ==
    [][SignOutReturns =>
         /\ (out'.nav = LoginRoute) <=> (pcOut.res = "ok")
         /\ pcOut.res = "error" => (out'.nav = NoNav /\ out'.toast = ToastError)]_vars

C1_Witness == out.act = "SignOutThen" /\ out.nav = NoNav /\ out.toast = ToastError

\* C2: the Session identity set from a newer state of the identity provider
\* is never overwritten by a result that carries an older state: a step that
\* sets user from an older state than the one it holds leaves user as it is.
C2_NeverOverwrittenByOlder == [][userVer' >= userVer \/ user' = user]_vars

\* C3: loading is true only initially: the restore's completion and every
\* identity-change notification leave it false, and no step makes it true
\* once it is false.
C3_LoadingOnlyInitially ==
    [][/\ ~loading => ~loading'
       /\ (restore.pc = "resolved" /\ restore'.pc = "done") => ~loading'
       /\ out'.act = "NotifyDeliver" => ~loading'
       /\ loading' => (restore'.pc # "done" /\ user' = None)]_vars

C3_Witness == out.act = "NotifyDeliver" /\ restore.pc # "done" /\ ~loading

CachedIds(u) == Range(Ids(qEvents[u].data))

\* C4: an open registrations channel filters on exactly the ids of the cached
\* events of the current identity; none stays open with an older filter.
C4_FilterIsCachedIds ==
    \A i \in 1..Len(chans) :
        chans[i].table = "registrations" =>
            /\ user \in Users
            /\ chans[i].uid = user
            /\ qEvents[user].has
            /\ chans[i].ids = Ids(qEvents[user].data)
            /\ Range(chans[i].ids) = CachedIds(user)

\* The cached events shrank from {1, 2} to {2} while the registrations fetch
\* that closed over both is still in flight, and the channel was reopened.
C4_Witness ==
    /\ user = "u1"
    /\ qRegs["u1"].pc = "primary"
    /\ qRegs["u1"].ids = <<1, 2>>
    /\ chanReg.ids = <<2>>
    /\ chans # <<>>

\* C5: at most one channel per table is open at any time, the moments between
\* an effect's cleanup and its body included.
C5_OneChannelPerTable ==
    \A t \in Tables : Count(chans, t) <= 1 /\ peak[t] <= 1

\* The identity changed from u1 to u2 under the mounted view while events of
\* both were cached: the channels of u1 were replaced by those of u2.
C5_Witness ==
    /\ mounted
    /\ out.act = "NotifyDeliver"
    /\ user = "u2"
    /\ qRegs["u1"].pc = "primary"
    /\ chanEv.uid = "u2"
    /\ chanReg.uid = "u2"
    /\ Len(chans) = 2
    /\ peak["events"] = 1
    /\ peak["registrations"] = 1

\* C6: no channel of the view is open once the view is unmounted or the
\* identity is none, and the identity-change subscription is closed once the
\* provider is torn down.
C6_NoOrphanedSubscriptions ==
    /\ (~mounted \/ user = None) => chans = <<>>
    /\ ~provider => (~subscribed /\ ~mounted)

C6_Witness ==
    /\ ~provider
    /\ peak["events"] = 1
    /\ peak["registrations"] = 1
    /\ chans = <<>>

\* C7: a change on the events channel invalidates the events key of the
\* current identity; a change on the registrations channel invalidates its
\* registrations key and its events key.  The invalidated keys are fetched
\* again.
C7_ChangeInvalidatesKeys ==
    [][/\ out'.act = "EventsChange" =>
            /\ user \in Users
            /\ EventsKey(user) \in out'.inval
            /\ qEvents'[user].fetching
       /\ out'.act = "RegsChange" =>
            /\ user \in Users
            /\ {RegsKey(user), EventsKey(user)} \subseteq out'.inval
            /\ qEvents'[user].fetching
            /\ qRegs'[user].pc = "primary"]_vars

\* A registrations change was handled for u1 while events of u2 are cached.
C7_Witness ==
    /\ out.act = "RegsChange"
    /\ user = "u1"
    /\ out.inval = {RegsKey("u1"), EventsKey("u1")}
    /\ qEvents["u2"].has
    /\ ~qEvents["u2"].fetching

\* C8: a change notification alters no cached collection; the cached events
\* and registrations change only when a fetch for their key completes.
C8_NotificationsOnlyInvalidate ==
    [][\A u \in Users :
        /\ out'.act \in {"EventsChange", "RegsChange"} =>
              /\ qEvents'[u].data = qEvents[u].data /\ qEvents'[u].has = qEvents[u].has
              /\ qRegs'[u].data = qRegs[u].data /\ qRegs'[u].has = qRegs[u].has
        /\ (qEvents'[u].data # qEvents[u].data \/ qEvents'[u].has # qEvents[u].has) =>
              (qEvents[u].fetching /\ ~qEvents'[u].fetching)
        /\ (qRegs'[u].data # qRegs[u].data \/ qRegs'[u].has # qRegs[u].has) =>
              (qRegs[u].pc # "idle" /\ qRegs'[u].pc = "idle")]_vars

\* A registrations change was handled: both cached collections are as they
\* were, marked invalidated, and their refetches are in flight.
C8_Witness ==
    /\ out.act = "RegsChange"
    /\ qRegs["u1"].has
    /\ Len(qRegs["u1"].data) = 1
    /\ Len(qEvents["u1"].data) = 2
    /\ qRegs["u1"].pc = "primary"
    /\ qEvents["u1"].fetching

\* C9: every registration handed to the view's consumers belongs to an event
\* of the cached events collection.
C9_RegistrationsOfCachedEvents ==
    LET ev == EventsOf(user, qEvents)
        rg == RegsOf(user, qRegs)
    IN  (mounted /\ ev.has /\ rg.has /\ Len(rg.data) > 0) =>
            \A i \in 1..Len(rg.data) : rg.data[i].event_id \in Range(Ids(ev.data))

\* C10: activeEvents + completedEvents = totalEvents in the stats of every
\* render, also when the clock advances between the two counts.
C10_ActivePlusCompletedIsTotal ==
    stats.activeEvents + stats.completedEvents = stats.totalEvents

\* The onAuthStateChange callback runs for a notification equal to the one
\* the task before it delivered.
DuplicateDelivery ==
    /\ out.act = "NotifyDeliver"
    /\ out'.act = "NotifyDeliver"
    /\ notifs # <<>>
    /\ notifs' = Tail(notifs)
    /\ Head(notifs).s = user
    /\ Head(notifs).v = userVer

\* C11: the second delivery of the same identity-change notification leaves
\* the Session as the first left it and has no visible effect of its own: it
\* requests no navigation, starts no routing and raises no toast.
C11_DuplicateDeliveryInvisible ==
    [][DuplicateDelivery =>
         /\ user' = user
         /\ loading' = loading
         /\ out'.nav = NoNav
         /\ out'.toast = NoToast
         /\ out'.route = None]_vars

\* signIn, or signUp, returns through its catch block.
SignInFails == pcIn.pc = "resolved" /\ pcIn.res # "ok" /\ pcIn'.pc = "idle"
SignUpFails ==
    /\ pcUp.pc \in {"signup_resolved", "signin_resolved"}
    /\ pcUp.res # "ok"
    /\ pcUp'.pc = "idle"

\* C12: a signIn or signUp that fails at a backend step ends in an error
\* notification, requests no navigation and starts no routing, returns
\* normally, and has not changed the session identity: no step of the failed
\* call established a session.
C12_FailureLeavesSession ==
    [][/\ SignInFails =>
            /\ out'.toast = ToastError /\ out'.nav = NoNav /\ out'.route = None
            /\ ~pcIn.est
       /\ SignUpFails =>
            /\ out'.toast = ToastError /\ out'.nav = NoNav /\ out'.route = None
            /\ ~pcUp.est]_vars

\* C13: after startup the restore eventually completes and loading is false
\* from then on, whether getSession resolved to an identity, to none, or
\* failed.
C13_RestoreCompletes == <>[](restore.pc = "done" /\ ~loading)

\* The restore has completed after a failed getSession: a session is
\* persisted, and the restore resolved to none.
C13_Witness ==
    /\ restore.pc = "done"
    /\ restore.s = None
    /\ session # None
    /\ ver = 0
    /\ ~loading

\* The .then callback of a getSession() that succeeded and read the identity
\* provider's current session, established by the last successful signIn.
RestoreAfterSignIn ==
    /\ restore.pc = "resolved"
    /\ restore'.pc = "done"
    /\ restore.ok
    /\ restore.v = ver
    /\ session # None
    /\ pcIn.pc = "idle"

\* C14: a successful signIn followed by a session restore yields a Session
\* whose identity is the identity that signed in.
C14_SignInThenRestore ==
    [][RestoreAfterSignIn => (user' = session /\ ~loading')]_vars

\* Two signIns have succeeded, the second of u2; a restore that read the
\* session after it has set the identity u2.
C14_Witness ==
    /\ out.act = "RestoreThen"
    /\ ver = 2
    /\ session = "u2"
    /\ user = "u2"
    /\ userVer = 2
    /\ restore.pc = "done"

\* A fetch of u's events key, of u's registrations key, is issued.
EventsFetchIssued(u) == ~qEvents[u].fetching /\ qEvents'[u].fetching
RegsFetchIssued(u) ==
    /\ qRegs'[u].pc = "primary"
    /\ qRegs[u].pc # "primary" \/ qRegs'[u].ids # qRegs[u].ids

\* C15: an events fetch is issued only for the key of the present Session
\* identity, and a registrations fetch only while the cached events of that
\* identity are present and not empty, a fetch issued by an invalidation
\* included.
C15_NoFetchWhileDisabled ==
    [][\A u \in Users :
         /\ EventsFetchIssued(u) => (mounted' /\ user' = u)
         /\ RegsFetchIssued(u) =>
              /\ mounted'
              /\ user' = u
              /\ qEvents'[u].has
              /\ Len(qEvents'[u].data) > 0]_vars

\* The identity became none under the mounted view while events of u1 are
\* cached: nothing is being fetched.
C15_Witness ==
    /\ mounted
    /\ user = None
    /\ out.act = "NotifyDeliver"
    /\ qEvents["u1"].has
    /\ Len(qEvents["u1"].data) > 0
    /\ \A u \in Users : ~qEvents[u].fetching /\ qRegs[u].pc = "idle"

\* C16: when the email lookup of the registrations fetch fails, the fetch
\* still succeeds and caches every registration of the primary query, each
\* with its email field equal to null.
C16_EmailFailureGivesNull ==
    [][out'.act = "RegsEmailError" =>
         \A u \in Users :
            (qRegs[u].pc = "email" /\ qRegs'[u].pc = "idle") =>
                /\ qRegs'[u].has
                /\ Len(qRegs'[u].data) = Len(qRegs[u].rows)
                /\ \A i \in 1..Len(qRegs[u].rows) :
                     /\ qRegs'[u].data[i].id = qRegs[u].rows[i].id
                     /\ qRegs'[u].data[i].user_email = Null]_vars

RECURSIVE Volunteers(_, _)
\* The volunteers of rows counted in layers: the rows with at least k
\* volunteers, for k, k + 1, ...; a row without current_volunteers is in no
\* layer.
Volunteers(rows, k) ==
    IF k > MaxVol THEN 0
    ELSE Cardinality({i \in 1..Len(rows) : rows[i].cv >= k}) + Volunteers(rows, k + 1)

\* C17: totalVolunteers of a render is the sum of current_volunteers over the
\* cached events, a missing current_volunteers counted as 0, and is 0 when
\* no events are cached.
C17_TotalVolunteersIsSum ==
    LET ev == EventsOf(user, qEvents)
    IN  out.act = "Render" =>
            stats.totalVolunteers = IF ev.has THEN Volunteers(ev.data, 1) ELSE 0

\* A render over two cached events, one without current_volunteers.
C17_Witness ==
    /\ out.act = "Render"
    /\ qEvents["u1"].has
    /\ Len(qEvents["u1"].data) = 2
    /\ qEvents["u1"].data[1].cv = NullCv
    /\ qEvents["u1"].data[2].cv = MaxVol
    /\ stats.totalVolunteers = MaxVol

\* C18: whenever post-auth routing is started for an identity id, the Session
\* identity at that moment is id.  The statement is read in the code's
\* favour: a session of id that the identity provider holds and whose
\* notification is still on its way counts as the Session identity being id.
C18_RoutingOnlyForSession ==
    [][out'.route # None => (user' = out'.route \/ session' = out'.route)]_vars

====
